---- MODULE Spec2Model ----
(***************************************************************************)
(* Model of the quote cache middleware of the Jupiter API client           *)
(* (src/src/cache-middleware.ts, class QuoteCacheMiddleware).              *)
(*                                                                         *)
(* Time is in milliseconds, as in the code (Date.now()).  The LRU store    *)
(* of the lru-cache package is modelled by the operators LRU*: a sequence  *)
(* of entries from the least to the most recently used one.  Its clock     *)
(* (performance.now()) and Date.now() are one clock here.                  *)
(***************************************************************************)
EXTENDS Integers, Sequences, FiniteSets, TLC

(***************************************************************************)
(* Bounds of the model.                                                    *)
(***************************************************************************)
MaxTicks == 2
MaxRequests == 3
MaxInFlight == 2
MaxObs == 2
MaxHistory == 4
MaxArrivals == 3
MaxLookups == 5
MaxPatterns == 3
MaxSweeps == 2
MaxTurns == 1

(***************************************************************************)
(* Program constants.                                                      *)
(***************************************************************************)
MsPerSecond == 1000
DefaultMaxSize == 1000
DefaultTTLSeconds == 30
DefaultMaxTTLSeconds == 120
DefaultMinTTLSeconds == 5
PopularTTL == 60000
FallbackCacheTtl == 30000
MaxResponseTimes == 100
KeptResponseTimes == 50
MaxPricePoints == 10

SOL == "So11111111111111111111111111111111111111112"
USDC == "EPjFWdd5AufqSSqeM2qN1xzybapC8G4wEGGkZwyTDt1v"
popularPairs == {<<SOL>>, <<USDC>>}

(***************************************************************************)
(* URLs.  A URL string is kept in parsed form: its origin ("" when the     *)
(* string has no scheme, as in "/quote?a=1" or "not-a-valid-url"), the     *)
(* segments of its path and the raw name=value pairs of its query.  A raw  *)
(* value is a sequence of tokens; a token is a literal piece of text or a  *)
(* percent escape.                                                         *)
(***************************************************************************)
Null == [some |-> FALSE, v |-> <<>>]
Some(v) == [some |-> TRUE, v |-> v]

\* String.prototype.includes('/quote') on the URL string
UrlIncludesQuote(u) ==
  \E i \in 1..Len(u.path) : u.path[i] = "quote"

\* new URL(url) raises a TypeError for a string without a scheme
URLParses(u) == u.origin # ""

\* URLSearchParams decodes percent escapes and '+'
PctDecode(tok) ==
  CASE tok = "%31" -> "1"
    [] tok = "%32" -> "2"
    [] tok = "+" -> " "
    [] OTHER -> tok

DecodeValue(v) == [i \in 1..Len(v) |-> PctDecode(v[i])]

\* URLSearchParams.get(name): the first value with that name, or null
RECURSIVE ParamsGet(_, _)
ParamsGet(query, name) ==
  IF query = <<>> THEN Null
  ELSE IF Head(query).name = name THEN Some(DecodeValue(Head(query).value))
  ELSE ParamsGet(Tail(query), name)

\* JSON.stringify: the text that denotes the value x
JSONstringify(x) == [json |-> x]

\* createHash('md5').update(s).digest('hex'), collision free
MD5Hex(s) == [md5 |-> s]

\* a keyData that also holds a routing parameter of the query
keyDataOfAllParams(url) ==
  [inputMint |-> ParamsGet(url.query, "inputMint"),
   outputMint |-> ParamsGet(url.query, "outputMint"),
   amount |-> ParamsGet(url.query, "amount"),
   slippageBps |-> ParamsGet(url.query, "slippageBps"),
   onlyDirectRoutes |-> ParamsGet(url.query, "onlyDirectRoutes")]

\* a keyData of the two mints alone
keyDataOfMints(url) ==
  [inputMint |-> ParamsGet(url.query, "inputMint"),
   outputMint |-> ParamsGet(url.query, "outputMint")]

\* the object keyData of createCacheKey
keyDataOf(url) ==
  [inputMint |-> ParamsGet(url.query, "inputMint"),
   outputMint |-> ParamsGet(url.query, "outputMint"),
   amount |-> ParamsGet(url.query, "amount"),
   slippageBps |-> ParamsGet(url.query, "slippageBps")]

\* a key made from the query string as it is written
createCacheKeyOfQuery(url) == MD5Hex(JSONstringify(url.query))

\* createCacheKey(url), for a url that new URL() accepts
createCacheKey(url) == MD5Hex(JSONstringify(keyDataOf(url)))

(***************************************************************************)
(* Options.  An option that is not given is <<>>, a given one is <<v>>.    *)
(***************************************************************************)
\* x || d
OrDefault(x, d) == IF x = <<>> \/ x[1] = 0 THEN d ELSE x[1]

Min2(a, b) == IF a < b THEN a ELSE b
Max2(a, b) == IF a > b THEN a ELSE b

(***************************************************************************)
(* Insertion ordered maps (Map): sequences of [key, val].                  *)
(***************************************************************************)
MapHas(m, k) == \E i \in 1..Len(m) : m[i].key = k
MapIndex(m, k) == CHOOSE i \in 1..Len(m) : m[i].key = k
MapGet(m, k) == m[MapIndex(m, k)].val
MapSet(m, k, v) ==
  IF MapHas(m, k)
  THEN [m EXCEPT ![MapIndex(m, k)] = [key |-> k, val |-> v]]
  ELSE Append(m, [key |-> k, val |-> v])

(***************************************************************************)
(* The LRU store (package lru-cache), least recently used entry first.     *)
(***************************************************************************)
LRUHasKey(c, k) == \E i \in 1..Len(c) : c[i].key = k
LRUIndex(c, k) == CHOOSE i \in 1..Len(c) : c[i].key = k
LRURemoveAt(c, i) == SubSeq(c, 1, i - 1) \o SubSeq(c, i + 1, Len(c))

\* an entry is stale once its age exceeds its own ttl
LRUIsStale(e, t) == e.ttl # 0 /\ t - e.start > e.ttl

\* cache.get(k): a stale entry is deleted and undefined is returned; a live
\* entry becomes the most recently used one
LRUGet(c, k, t) ==
  IF ~LRUHasKey(c, k) THEN [found |-> FALSE, cache |-> c]
  ELSE LET i == LRUIndex(c, k) IN
       IF LRUIsStale(c[i], t)
       THEN [found |-> FALSE, cache |-> LRURemoveAt(c, i)]
       ELSE [found |-> TRUE, value |-> c[i].value,
             cache |-> Append(LRURemoveAt(c, i), c[i])]

\* a set that never evicts
LRUSetNoEvict(c, max, k, v, ttl, t) ==
  LET e == [key |-> k, value |-> v, ttl |-> ttl, start |-> t] IN
  IF LRUHasKey(c, k) THEN Append(LRURemoveAt(c, LRUIndex(c, k)), e)
  ELSE Append(c, e)

\* cache.set(k, v, {ttl}): overwrite, or insert after evicting the least
\* recently used entry of a full store
LRUSet(c, max, k, v, ttl, t) ==
  LET e == [key |-> k, value |-> v, ttl |-> ttl, start |-> t] IN
  IF LRUHasKey(c, k) THEN Append(LRURemoveAt(c, LRUIndex(c, k)), e)
  ELSE IF Len(c) >= max THEN Append(Tail(c), e)
  ELSE Append(c, e)

(***************************************************************************)
(* Texts and JSON.  A text is [json |-> x], the JSON text of the value x,  *)
(* or [raw |-> s], a text that is not JSON.                                *)
(***************************************************************************)
IsJSON(text) == "json" \in DOMAIN text
\* JSON.parse of a text for which IsJSON holds
JSONparse(text) == text.json

\* btoa / atob
btoa(text) == [b64 |-> text]
atob(b) == b.b64

\* 'data:application/json;base64,' + payload, and what a fetch of it reads
DataUrl(payload) == [data |-> payload]
IsDataUrl(u) == "data" \in DOMAIN u
DataUrlText(u) == atob(u.data)

\* parseFloat of the output amounts that occur
ParseFloat(s) ==
  CASE s = "1" -> [finite |-> TRUE, n |-> 1]
    [] s = "2" -> [finite |-> TRUE, n |-> 2]
    [] s = "0" -> [finite |-> TRUE, n |-> 0]
    [] OTHER -> [finite |-> FALSE, n |-> 0]

(***************************************************************************)
(* Volatility.  A price is a number [finite, n]: the integer n, or a       *)
(* value that is not finite (NaN, Infinity).  The relative changes are     *)
(* kept over the common denominator Lcm of the previous prices, so the     *)
(* variance is the exact rational num / den.                               *)
(***************************************************************************)
Num(n) == [finite |-> TRUE, n |-> n]
NotFinite == [finite |-> FALSE, n |-> 0]

\* a test that looks at the previous price only
PairSkippedPrevOnly(prev, curr) == (prev.finite /\ prev.n <= 0) \/ ~prev.finite

\* prev <= 0 || curr <= 0 || !isFinite(prev) || !isFinite(curr)
PairSkipped(prev, curr) ==
  \/ (prev.finite /\ prev.n <= 0) \/ (curr.finite /\ curr.n <= 0)
  \/ ~prev.finite \/ ~curr.finite

RECURSIVE Gcd(_, _)
Gcd(a, b) == IF b = 0 THEN a ELSE Gcd(b, a % b)

RECURSIVE LcmOfPrev(_, _)
LcmOfPrev(prices, i) ==
  IF i > Len(prices) THEN 1
  ELSE LET rest == LcmOfPrev(prices, i + 1)
           prev == prices[i - 1]
       IN IF PairSkipped(prev, prices[i]) THEN rest
          ELSE (prev.n * rest) \div Gcd(prev.n, rest)

\* the valid relative changes (curr - prev) / prev, each times L
RECURSIVE ScaledChanges(_, _, _)
ScaledChanges(prices, i, L) ==
  IF i > Len(prices) THEN <<>>
  ELSE LET prev == prices[i - 1]
           curr == prices[i]
       IN IF PairSkipped(prev, curr)
          THEN ScaledChanges(prices, i + 1, L)
          ELSE <<(curr.n - prev.n) * (L \div prev.n)>>
                 \o ScaledChanges(prices, i + 1, L)

RECURSIVE SumSeq(_)
SumSeq(s) == IF s = <<>> THEN 0 ELSE Head(s) + SumSeq(Tail(s))

SquaresOf(s) == [i \in 1..Len(s) |-> s[i] * s[i]]

\* calculateVolatility: the variance whose square root is returned
VarianceOf(prices) ==
  IF Len(prices) < 2 THEN [num |-> 0, den |-> 1]
  ELSE LET L == LcmOfPrev(prices, 2)
           ch == ScaledChanges(prices, 2, L)
           n == Len(ch)
       IN IF n = 0 THEN [num |-> 0, den |-> 1]
          ELSE [num |-> n * SumSeq(SquaresOf(ch)) - SumSeq(ch) * SumSeq(ch),
                den |-> n * n * L * L]

\* calculateVolatility(cacheKey), squared
calculateVolatility(prices, cacheKey) ==
  IF ~MapHas(prices, cacheKey) THEN [num |-> 0, den |-> 1]
  ELSE VarianceOf(MapGet(prices, cacheKey))

\* volatility > p / q  and  volatility < p / q
VolatilityAbove(prices, p, q) ==
  LET var == VarianceOf(prices) IN var.num * q * q > p * p * var.den
VolatilityBelow(prices, p, q) ==
  LET var == VarianceOf(prices) IN var.num * q * q < p * p * var.den

(***************************************************************************)
(* TTL policy.  The option values are whole seconds, so every base TTL is  *)
(* a multiple of 1000 ms and baseTTL * 0.3 is a whole number of ms.        *)
(***************************************************************************)
IsPopular(p) == (IF p.some THEN p.v ELSE <<>>) \in popularPairs

\* getSmartTTL(url), in milliseconds
getSmartTTL(opts, prices, url) ==
  LET inputMint == ParamsGet(url.query, "inputMint")
      outputMint == ParamsGet(url.query, "outputMint")
      cacheKey == createCacheKey(url)
      maxTTL == OrDefault(opts.maxTTL, DefaultMaxTTLSeconds) * MsPerSecond
      minTTL == OrDefault(opts.minTTL, DefaultMinTTLSeconds) * MsPerSecond
      base0 == OrDefault(opts.defaultTTL, DefaultTTLSeconds) * MsPerSecond
      base1 == IF IsPopular(inputMint) \/ IsPopular(outputMint)
               THEN PopularTTL ELSE base0
      base2 == IF opts.enableAdaptiveTTL /\ MapHas(prices, cacheKey)
               THEN LET h == MapGet(prices, cacheKey) IN
                    IF VolatilityAbove(h, 5, 100)
                    THEN Max2(minTTL, (base1 * 3) \div 10)
                    ELSE IF VolatilityBelow(h, 1, 100)
                    THEN Min2(maxTTL, base1 * 2)
                    ELSE base1
               ELSE base1
  IN Min2(maxTTL, Max2(minTTL, base2))

\* isCacheValid(cached): the age is compared with the store's default ttl
isCacheValid(cached, t, cacheTtl) ==
  t - cached.timestamp < (IF cacheTtl = 0 THEN FallbackCacheTtl ELSE cacheTtl)

\* a history that is never trimmed
trackPriceChangeNoTrim(prices, cacheKey, responseData) ==
  IF ~IsJSON(responseData) THEN prices
  ELSE LET response == JSONparse(responseData) IN
    IF "outAmount" \notin DOMAIN response \/ response.outAmount = "" THEN prices
    ELSE LET price == ParseFloat(response.outAmount) IN
      IF ~price.finite \/ price.n <= 0 THEN prices
      ELSE MapSet(prices, cacheKey,
                  Append(IF MapHas(prices, cacheKey)
                         THEN MapGet(prices, cacheKey) ELSE <<>>, price))

\* trackPriceChange(cacheKey, responseData)
trackPriceChange(prices, cacheKey, responseData) ==
  IF ~IsJSON(responseData) THEN prices
  ELSE LET response == JSONparse(responseData) IN
    IF "outAmount" \notin DOMAIN response \/ response.outAmount = "" THEN prices
    ELSE LET price == ParseFloat(response.outAmount) IN
      IF ~price.finite \/ price.n <= 0 THEN prices
      ELSE LET old == IF MapHas(prices, cacheKey)
                      THEN MapGet(prices, cacheKey) ELSE <<>>
               pushed == Append(old, price)
               changes == IF Len(pushed) > MaxPricePoints
                          THEN Tail(pushed) ELSE pushed
           IN MapSet(prices, cacheKey, changes)

\* recordResponseTime(time): the new list of response times
recordResponseTime(times, time) ==
  LET pushed == Append(times, time) IN
  IF Len(pushed) > MaxResponseTimes
  THEN SubSeq(pushed, Len(pushed) - KeptResponseTimes + 1, Len(pushed))
  ELSE pushed

AvgOf(times) == SumSeq(times) \div Len(times)

(***************************************************************************)
(* The requests and responses the middleware is run on.                    *)
(*                                                                         *)
(* A quote request is the tuple of its four essential parameters (each     *)
(* Null or Some(text)); the client writes it into a query string in some   *)
(* parameter order, with or without percent escapes, with or without a     *)
(* further parameter.                                                      *)
(***************************************************************************)
ParamNames == <<"inputMint", "outputMint", "amount", "slippageBps">>

TupleField(t, name) ==
  CASE name = "inputMint" -> t.inputMint
    [] name = "outputMint" -> t.outputMint
    [] name = "amount" -> t.amount
    [] OTHER -> t.slippageBps

PctEncode(tok) ==
  CASE tok = "1" -> "%31"
    [] tok = "2" -> "%32"
    [] tok = " " -> "+"
    [] OTHER -> tok

EncodeValue(v, escape) ==
  IF escape THEN [i \in 1..Len(v) |-> PctEncode(v[i])] ELSE v

Reverse(s) == [i \in 1..Len(s) |-> s[Len(s) + 1 - i]]

BuildQuery(t, enc) ==
  LET IsGiven(n) == TupleField(t, n).some
      names == SelectSeq(ParamNames, IsGiven)
      plain == [i \in 1..Len(names) |->
                  [name |-> names[i],
                   value |-> EncodeValue(TupleField(t, names[i]).v, enc.escape)]]
      all == IF enc.extra
             THEN plain \o <<[name |-> "onlyDirectRoutes", value |-> <<"true">>]>>
             ELSE plain
  IN IF enc.reverse THEN Reverse(all) ELSE all

Encodings == [reverse : BOOLEAN, escape : BOOLEAN, extra : BOOLEAN]
PlainEnc == [reverse |-> FALSE, escape |-> FALSE, extra |-> FALSE]
OtherEnc == [reverse |-> TRUE, escape |-> TRUE, extra |-> TRUE]

ApiOrigin == "https://api.jup.ag"
QuoteUrl(t, enc) ==
  [origin |-> ApiOrigin, path |-> <<"swap", "v1", "quote">>,
   query |-> BuildQuery(t, enc)]

TupleSolUsdc ==
  [inputMint |-> Some(<<SOL>>), outputMint |-> Some(<<USDC>>),
   amount |-> Some(<<"1">>), slippageBps |-> Null]
TupleOther ==
  [inputMint |-> Some(<<"MintA">>), outputMint |-> Some(<<"MintB">>),
   amount |-> Some(<<"1">>), slippageBps |-> Null]

TupleThird ==
  [inputMint |-> Some(<<"MintC">>), outputMint |-> Some(<<"MintB">>),
   amount |-> Some(<<"1">>), slippageBps |-> Null]

\* the quote of TupleOther with "slippageBps=" in the query, with amount 2
TupleEmptySlippage == [TupleOther EXCEPT !.slippageBps = Some(<<>>)]
TupleTwice == [TupleOther EXCEPT !.amount = Some(<<"2">>)]

UrlSolUsdc == QuoteUrl(TupleSolUsdc, PlainEnc)
UrlOtherAlt == QuoteUrl(TupleOther, OtherEnc)
UrlEmptySlippage == QuoteUrl(TupleEmptySlippage, PlainEnc)
UrlTwice == QuoteUrl(TupleTwice, OtherEnc)
UrlSolUsdcAlt == QuoteUrl(TupleSolUsdc, OtherEnc)
UrlOther == QuoteUrl(TupleOther, PlainEnc)
UrlThird == QuoteUrl(TupleThird, PlainEnc)
\* "/quote?inputMint=MintA&...": a quote URL without scheme and host
UrlRelative ==
  [origin |-> "", path |-> <<"quote">>, query |-> BuildQuery(TupleOther, PlainEnc)]
UrlSwap == [origin |-> ApiOrigin, path |-> <<"swap", "v1", "swap">>, query |-> <<>>]
\* 'not-a-valid-url'
UrlInvalid == [origin |-> "", path |-> <<"not-a-valid-url">>, query |-> <<>>]

Req(u, m) == [url |-> u, method |-> m]
Requests ==
  {Req(UrlSolUsdc, "GET"), Req(UrlSolUsdcAlt, "GET"), Req(UrlOther, "GET"),
   Req(UrlOther, "POST"), Req(UrlRelative, "GET"), Req(UrlRelative, "POST"),
   Req(UrlSwap, "POST"), Req(UrlThird, "GET"), Req(UrlOtherAlt, "GET"),
   Req(UrlEmptySlippage, "GET"), Req(UrlTwice, "GET")}
\* quote requests that differ in one parameter, or only in their writing
ServeRequests ==
  {Req(UrlOther, "GET"), Req(UrlOtherAlt, "GET"), Req(UrlEmptySlippage, "GET"),
   Req(UrlTwice, "GET")}
\* the quote requests of a client with an absolute base path
CoreRequests ==
  {Req(UrlSolUsdc, "GET"), Req(UrlSolUsdcAlt, "GET"), Req(UrlOther, "GET")}
\* quote requests with three fingerprints
LRURequests ==
  {Req(UrlSolUsdc, "GET"), Req(UrlOther, "GET"), Req(UrlThird, "GET")}
\* requests of other methods, to other paths and with a relative base path
EdgeRequests ==
  {Req(UrlOther, "GET"), Req(UrlOther, "POST"), Req(UrlRelative, "GET"),
   Req(UrlRelative, "POST"), Req(UrlSwap, "POST")}

QuoteBody(outAmount) == JSONstringify([outAmount |-> outAmount])
JsonHeaders == [contentType |-> "application/json"]

\* readable: response.clone() and text() succeed
OkResponse(body, readable) ==
  [ok |-> TRUE, status |-> 200, statusText |-> "OK", headers |-> JsonHeaders,
   body |-> body, readable |-> readable]
ErrorResponse ==
  [ok |-> FALSE, status |-> 500, statusText |-> "Internal Server Error",
   headers |-> JsonHeaders, body |-> [raw |-> "Error"], readable |-> TRUE]

Responses ==
  {OkResponse(QuoteBody("1"), TRUE), OkResponse(QuoteBody("2"), TRUE),
   OkResponse(QuoteBody("1"), FALSE), ErrorResponse}
LRUResponses == {OkResponse(QuoteBody("1"), TRUE), ErrorResponse}
EdgeResponses ==
  {OkResponse(QuoteBody("1"), TRUE), OkResponse(QuoteBody("1"), FALSE), ErrorResponse}
AdaptiveResponses ==
  Responses \cup {OkResponse([raw |-> "invalid-json"], TRUE)}

(***************************************************************************)
(* Option sets.                                                            *)
(***************************************************************************)
\* basic mode; a popular pair gets maxTTL (2 s), above the default ttl (1 s)
OptsBasic ==
  [maxSize |-> <<2>>, defaultTTL |-> <<1>>, minTTL |-> <<1>>, maxTTL |-> <<2>>,
   enableAdaptiveTTL |-> FALSE, enablePredictive |-> FALSE]
\* basic mode; every TTL is capped at maxTTL (1 s), below the default ttl (2 s)
OptsCapped ==
  [maxSize |-> <<2>>, defaultTTL |-> <<2>>, minTTL |-> <<1>>, maxTTL |-> <<1>>,
   enableAdaptiveTTL |-> FALSE, enablePredictive |-> FALSE]
\* basic mode with room for one entry
OptsOne ==
  [maxSize |-> <<1>>, defaultTTL |-> <<1>>, minTTL |-> <<1>>, maxTTL |-> <<2>>,
   enableAdaptiveTTL |-> FALSE, enablePredictive |-> FALSE]
\* both features on; a warm-up is due 1 s after it is scheduled
OptsPredictive ==
  [maxSize |-> <<2>>, defaultTTL |-> <<1>>, minTTL |-> <<1>>, maxTTL |-> <<2>>,
   enableAdaptiveTTL |-> TRUE, enablePredictive |-> TRUE]
\* adaptive mode
OptsAdaptive ==
  [maxSize |-> <<2>>, defaultTTL |-> <<1>>, minTTL |-> <<1>>, maxTTL |-> <<2>>,
   enableAdaptiveTTL |-> TRUE, enablePredictive |-> FALSE]

OptionSets == {OptsBasic, OptsCapped}

(***************************************************************************)
(* Construction.                                                           *)
(***************************************************************************)
WarmThreshold == 3
MaxWarming == 100
WarmingDropped == 50
CleanupAge == 3600000
MapLimit == 1000
MapKept == 500
CleanupInterval == 300000
MaxValidSize == 10000

\* x ?? d
OrNullish(x, d) == IF x = <<>> THEN d ELSE x[1]

Advanced(opts) == opts.enableAdaptiveTTL \/ opts.enablePredictive

\* validateOptions(options) returns without raising
validateOptions(opts) ==
  LET minTTL == OrNullish(opts.minTTL, DefaultMinTTLSeconds)
      maxTTL == OrNullish(opts.maxTTL, DefaultMaxTTLSeconds)
      defaultTTL == OrNullish(opts.defaultTTL, DefaultTTLSeconds)
      maxSize == OrNullish(opts.maxSize, DefaultMaxSize)
  IN /\ ~(minTTL >= maxTTL)
     /\ ~(defaultTTL < minTTL \/ defaultTTL > maxTTL)
     /\ ~(maxSize <= 0 \/ maxSize > MaxValidSize)

\* new LRUCache({max, ttl})
CacheMax(opts) == OrDefault(opts.maxSize, DefaultMaxSize)
CacheTtl(opts) == OrDefault(opts.defaultTTL, DefaultTTLSeconds) * MsPerSecond

\* new LRUCache({max, ttl}) returns a store: it raises a TypeError for a max
\* or a ttl that is not 0 and not a positive integer
LRUAccepts(max, ttl) == max >= 0 /\ ttl >= 0

\* the constructor returns an instance
Constructs(opts) ==
  /\ Advanced(opts) => validateOptions(opts)
  /\ LRUAccepts(CacheMax(opts), CacheTtl(opts))

\* startPeriodicCleanup(): the interval timer, with handle 1
CleanupTimer(t) == [id |-> 1, kind |-> "cleanup", key |-> MD5Hex(<<>>), due |-> t + CleanupInterval]
\* a constructor that starts the reclaimer in every mode
InitialTimersAlways(opts, t) == {CleanupTimer(t)}
InitialTimers(opts, t) == IF Advanced(opts) THEN {CleanupTimer(t)} ELSE {}

(***************************************************************************)
(* Usage patterns and warm-up scheduling.  pred is the record of the       *)
(* fields these methods write: usagePatterns, warmingQueue (in insertion   *)
(* order), timers (the timers pending in the event loop), cleanupTimers    *)
(* (the tracked handles) and nextTimer (the next handle).                  *)
(***************************************************************************)
InQueue(q, k) == \E i \in 1..Len(q) : q[i] = k

\* scheduleWarmUp(cacheKey)
\* a scheduling that lets the queue grow
scheduleWarmUpNoTrim(opts, pred, cacheKey, t) ==
  IF InQueue(pred.warmingQueue, cacheKey) THEN pred
  ELSE LET warmupDelay == OrDefault(opts.defaultTTL, DefaultTTLSeconds) * MsPerSecond
           timer == [id |-> pred.nextTimer, kind |-> "warmup", key |-> cacheKey,
                     due |-> t + warmupDelay]
       IN [pred EXCEPT !.warmingQueue = Append(@, cacheKey),
                       !.timers = @ \cup {timer},
                       !.cleanupTimers = @ \cup {timer.id},
                       !.nextTimer = @ + 1]

scheduleWarmUp(opts, pred, cacheKey, t) ==
  IF InQueue(pred.warmingQueue, cacheKey) THEN pred
  ELSE LET queued == Append(pred.warmingQueue, cacheKey)
           warmupDelay == OrDefault(opts.defaultTTL, DefaultTTLSeconds) * MsPerSecond
           timer == [id |-> pred.nextTimer, kind |-> "warmup", key |-> cacheKey,
                     due |-> t + warmupDelay]
       IN [pred EXCEPT
             !.warmingQueue = IF Len(queued) > MaxWarming
                              THEN SubSeq(queued, WarmingDropped + 1, Len(queued))
                              ELSE queued,
             !.timers = @ \cup {timer},
             !.cleanupTimers = @ \cup {timer.id},
             !.nextTimer = @ + 1]

\* trackUsagePattern(cacheKey)
\* a tracking that asks for a warm-up one lookup early
trackUsagePatternEarly(opts, pred, cacheKey, t) ==
  LET old == IF MapHas(pred.usagePatterns, cacheKey)
             THEN MapGet(pred.usagePatterns, cacheKey)
             ELSE [count |-> 0, lastUsed |-> t]
      pattern == [count |-> old.count + 1, lastUsed |-> t]
      tracked == [pred EXCEPT !.usagePatterns = MapSet(@, cacheKey, pattern)]
  IN IF pattern.count >= WarmThreshold /\ ~InQueue(pred.warmingQueue, cacheKey)
     THEN scheduleWarmUp(opts, tracked, cacheKey, t)
     ELSE tracked

\* a tracking that leaves the time of the first use in place
trackUsagePatternFirstUse(opts, pred, cacheKey, t) ==
  LET old == IF MapHas(pred.usagePatterns, cacheKey)
             THEN MapGet(pred.usagePatterns, cacheKey)
             ELSE [count |-> 0, lastUsed |-> t]
      pattern == [count |-> old.count + 1, lastUsed |-> old.lastUsed]
      tracked == [pred EXCEPT !.usagePatterns = MapSet(@, cacheKey, pattern)]
  IN IF pattern.count > WarmThreshold /\ ~InQueue(pred.warmingQueue, cacheKey)
     THEN scheduleWarmUp(opts, tracked, cacheKey, t)
     ELSE tracked

trackUsagePattern(opts, pred, cacheKey, t) ==
  LET old == IF MapHas(pred.usagePatterns, cacheKey)
             THEN MapGet(pred.usagePatterns, cacheKey)
             ELSE [count |-> 0, lastUsed |-> t]
      pattern == [count |-> old.count + 1, lastUsed |-> t]
      tracked == [pred EXCEPT !.usagePatterns = MapSet(@, cacheKey, pattern)]
  IN IF pattern.count > WarmThreshold /\ ~InQueue(pred.warmingQueue, cacheKey)
     THEN scheduleWarmUp(opts, tracked, cacheKey, t)
     ELSE tracked

(***************************************************************************)
(* State.                                                                  *)
(***************************************************************************)
VARIABLES
  options,          \* this.options
  now,              \* Date.now()
  cache,            \* this.cache
  pendingRequests,  \* this.pendingRequests (its keys)
  metrics,          \* this.metrics
  responseTimes,    \* this.responseTimes
  priceChanges,     \* this.priceChanges
  pred,             \* usagePatterns, warmingQueue, cleanupTimers and the timers
  inflight,         \* the calls that went out and have not completed
  last,             \* the last operation and what it returned
  keyIn,            \* runs of one function alone: its inputs
  keyOut            \* runs of one function alone: its results so far

vars == <<options, now, cache, pendingRequests, metrics, responseTimes,
          priceChanges, pred, inflight, last, keyIn, keyOut>>

ZeroMetrics ==
  [hits |-> 0, misses |-> 0, requests |-> 0, avgResponseTime |-> 0, apiCallsSaved |-> 0]

\* cleared: clear() or destroy() has been called (for the properties only)
EmptyPred(timers) ==
  [usagePatterns |-> <<>>, warmingQueue |-> <<>>, timers |-> timers,
   cleanupTimers |-> {tm.id : tm \in timers}, nextTimer |-> 2,
   cleared |-> FALSE]

\* a call in flight went out before ("old") or after ("cur") the last clear()
Generations == {"cur", "old"}
Flights == Requests \X Generations
RECURSIVE SumOver(_, _)
SumOver(f, S) ==
  IF S = {} THEN 0
  ELSE LET x == CHOOSE y \in S : TRUE IN f[x] + SumOver(f, S \ {x})
InFlightTotal == SumOver(inflight, Flights)

NoKeyRun == [used |-> FALSE]

\* the state after new QuoteCacheMiddleware(opts)
Constructed(opts) ==
  /\ Constructs(opts)
  /\ options = opts
  /\ now = 0
  /\ cache = <<>>
  /\ pendingRequests = {}
  /\ metrics = ZeroMetrics
  /\ responseTimes = <<>>
  /\ priceChanges = <<>>
  /\ pred = EmptyPred(InitialTimers(opts, 0))
  /\ inflight = [f \in Flights |-> 0]
  /\ last = [op |-> "new"]

Init ==
  /\ \E opts \in OptionSets : Constructed(opts)
  /\ keyIn = NoKeyRun
  /\ keyOut = NoKeyRun

(***************************************************************************)
(* pre(context)                                                            *)
(***************************************************************************)
\* the lookups of a run: more in predictive mode, where the fourth lookup of
\* a fingerprint is the first that schedules a warm-up
LookupCap == IF options.enablePredictive THEN MaxLookups ELSE MaxRequests

\* pre goes past its early return
Cacheable(r) == r.method = "GET" /\ UrlIncludesQuote(r.url)

\* the entry of key k as it is before a lookup (for the properties only)
Seen(c, k, t) ==
  IF LRUHasKey(c, k)
  THEN LET e == c[LRUIndex(c, k)] IN
       [present |-> TRUE, age |-> t - e.value.timestamp, ttl |-> e.ttl]
  ELSE [present |-> FALSE]

\* the lookup of pre: the store, then the pending-request table
Lookup(c, pending, opts, key, t) ==
  LET got == LRUGet(c, key, t) IN
  IF got.found /\ isCacheValid(got.value, t, CacheTtl(opts))
  THEN [outcome |-> "hit", cache |-> got.cache,
        out |-> DataUrl(btoa(JSONstringify(got.value.response)))]
  ELSE IF key \in pending
  THEN [outcome |-> "attach", cache |-> got.cache]
  ELSE [outcome |-> "miss", cache |-> got.cache]

\* a hit that is not counted as a saved call
CountedHitUnsaved(m, times) ==
  [m EXCEPT !.hits = @ + 1, !.avgResponseTime = AvgOf(times)]

\* the counters after a hit: hits++, apiCallsSaved++, recordResponseTime
CountedHit(m, times) ==
  [m EXCEPT !.hits = @ + 1, !.apiCallsSaved = @ + 1, !.avgResponseTime = AvgOf(times)]

Sent(f, r) == [f EXCEPT ![<<r, "cur">>] = @ + 1]

Pre(r) ==
  /\ UNCHANGED <<options, now, priceChanges, keyIn, keyOut>>
  /\ IF ~Cacheable(r)
     THEN \* forwarded untouched
          /\ InFlightTotal < MaxInFlight
          /\ inflight' = Sent(inflight, r)
          /\ last' = [op |-> "pre", url |-> r.url, method |-> r.method,
                      outcome |-> "pass", out |-> r.url]
          /\ UNCHANGED <<cache, pendingRequests, metrics, responseTimes, pred>>
     ELSE /\ metrics.requests < LookupCap
          /\ IF ~URLParses(r.url)
             THEN \* createCacheKey raises after requests++
                  /\ metrics' = [metrics EXCEPT !.requests = @ + 1]
                  /\ last' = [op |-> "pre", url |-> r.url, method |-> r.method,
                              outcome |-> "throw"]
                  /\ UNCHANGED <<cache, pendingRequests, responseTimes, pred, inflight>>
             ELSE LET key == createCacheKey(r.url)
                      seen == Seen(cache, key, now)
                      found == Lookup(cache, pendingRequests, options, key, now)
                      saved == found.outcome \in {"hit", "attach"}
                      times == recordResponseTime(responseTimes, 0)
                  IN /\ pred' = IF options.enablePredictive
                                THEN trackUsagePattern(options, pred, key, now)
                                ELSE pred
                     /\ cache' = found.cache
                     /\ pendingRequests' = pendingRequests
                     /\ metrics' =
                          IF saved
                          THEN CountedHit([metrics EXCEPT !.requests = @ + 1], times)
                          ELSE [metrics EXCEPT !.requests = @ + 1, !.misses = @ + 1]
                     /\ responseTimes' = IF saved THEN times ELSE responseTimes
                     /\ IF found.outcome = "miss"
                        THEN /\ InFlightTotal < MaxInFlight
                             /\ inflight' = Sent(inflight, r)
                        ELSE inflight' = inflight
                     /\ last' = [op |-> "pre", url |-> r.url, method |-> r.method,
                                 outcome |-> found.outcome, key |-> key, seen |-> seen,
                                 out |-> IF found.outcome = "hit" THEN found.out ELSE r.url]

(***************************************************************************)
(* post(context), for a call that went out, and a call that fails          *)
(***************************************************************************)
\* an early return that does not look at response.ok
PostSkipsIgnoringOk(url, resp) == ~UrlIncludesQuote(url)

\* a post that records the price before it computes the TTL
PricesAtTTLTracked(opts, prices, cacheKey, responseData) ==
  IF opts.enableAdaptiveTTL THEN trackPriceChange(prices, cacheKey, responseData)
  ELSE prices

\* the price histories that getSmartTTL reads in post: trackPriceChange has
\* not been called yet
PricesAtTTL(opts, prices, cacheKey, responseData) == prices

\* post returns at once
PostSkips(url, resp) == ~UrlIncludesQuote(url) \/ ~resp.ok

Done(f, r, g) == [f EXCEPT ![<<r, g>>] = @ - 1]

WithinObs(prices) == \A i \in 1..Len(prices) : Len(prices[i].val) <= MaxObs

Post(r, g, resp) ==
  /\ inflight[<<r, g>>] > 0
  /\ inflight' = Done(inflight, r, g)
  /\ UNCHANGED <<options, now, metrics, responseTimes, pred, keyIn, keyOut>>
  /\ IF PostSkips(r.url, resp)
     THEN /\ last' = [op |-> "post", url |-> r.url, method |-> r.method, gen |-> g,
                      resp |-> resp, outcome |-> "returned", out |-> resp]
          /\ UNCHANGED <<cache, pendingRequests, priceChanges>>
     ELSE IF ~URLParses(r.url)
     THEN \* createCacheKey raises outside the try block
          /\ last' = [op |-> "post", url |-> r.url, method |-> r.method, gen |-> g,
                      resp |-> resp, outcome |-> "throw"]
          /\ UNCHANGED <<cache, pendingRequests, priceChanges>>
     ELSE IF ~resp.readable
     THEN \* clone() or text() raises inside the try block
          /\ last' = [op |-> "post", url |-> r.url, method |-> r.method, gen |-> g,
                      resp |-> resp, outcome |-> "returned", out |-> resp]
          /\ UNCHANGED <<cache, pendingRequests, priceChanges>>
     ELSE LET cacheKey == createCacheKey(r.url)
              responseData == resp.body
              ttl == getSmartTTL(options,
                                 PricesAtTTL(options, priceChanges, cacheKey, responseData),
                                 r.url)
              value == [response |-> [status |-> resp.status,
                                      statusText |-> resp.statusText,
                                      headers |-> resp.headers,
                                      body |-> responseData],
                        timestamp |-> now,
                        from |-> r]
          IN /\ cache' = LRUSet(cache, CacheMax(options), cacheKey, value, ttl, now)
             /\ priceChanges' = IF options.enableAdaptiveTTL
                                THEN trackPriceChange(priceChanges, cacheKey, responseData)
                                ELSE priceChanges
             /\ WithinObs(priceChanges')
             /\ pendingRequests' = pendingRequests \ {cacheKey}
             /\ last' = [op |-> "post", url |-> r.url, method |-> r.method, gen |-> g,
                         resp |-> resp, outcome |-> "returned", out |-> resp,
                         had |-> [size |-> Len(cache),
                                  present |-> LRUHasKey(cache, cacheKey)]]

\* the wrapped call rejects: no post hook runs
Reject(r, g) ==
  /\ inflight[<<r, g>>] > 0
  /\ inflight' = Done(inflight, r, g)
  /\ last' = [op |-> "reject", url |-> r.url, method |-> r.method, gen |-> g]
  /\ UNCHANGED <<options, now, cache, pendingRequests, metrics, responseTimes,
                 priceChanges, pred, keyIn, keyOut>>

(***************************************************************************)
(* performCleanup(), the sweep of the periodic reclaimer                   *)
(***************************************************************************)
\* a purge that also drops a pattern exactly one hour old
PatternExpiredAtAge(pattern, t) == t - pattern.lastUsed >= CleanupAge

\* now - pattern.lastUsed > cleanupAge
PatternExpired(pattern, t) == t - pattern.lastUsed > CleanupAge

\* entries.slice(0, entries.length - 500) of the entries sorted by lastUsed
\* (Array.prototype.sort is stable): the keys that are deleted
OldestKeys(patterns) ==
  LET n == Len(patterns)
      Before(j, i) ==
        \/ patterns[j].val.lastUsed < patterns[i].val.lastUsed
        \/ patterns[j].val.lastUsed = patterns[i].val.lastUsed /\ j < i
      Rank(i) == Cardinality({j \in 1..n : Before(j, i)})
  IN {patterns[i].key : i \in {i \in 1..n : Rank(i) < n - MapKept}}

\* the two maps after performCleanup() at time t
performCleanup(prices, patterns, t) ==
  LET filled == SelectSeq(prices, LAMBDA e : Len(e.val) # 0)
      recent == SelectSeq(patterns, LAMBDA e : ~PatternExpired(e.val, t))
      oldest == OldestKeys(recent)
  IN [priceChanges |->
        IF Len(filled) > MapLimit
        THEN SubSeq(filled, Len(filled) - MapKept + 1, Len(filled))
        ELSE filled,
      usagePatterns |->
        IF Len(recent) > MapLimit
        THEN SelectSeq(recent, LAMBDA e : e.key \notin oldest)
        ELSE recent]

(***************************************************************************)
(* clear() and the passing of time                                         *)
(***************************************************************************)
\* a clear() that forgets its timers but leaves the usage patterns
ClearedTrackingKeepingPatterns(p) ==
  [p EXCEPT !.warmingQueue = <<>>,
            !.timers = {tm \in @ : tm.id \notin p.cleanupTimers},
            !.cleanupTimers = {},
            !.cleared = TRUE]

\* what clear() does to the predictive state and to the tracked timers
ClearedTracking(p) ==
  [p EXCEPT !.usagePatterns = <<>>,
            !.warmingQueue = <<>>,
            !.timers = {tm \in @ : tm.id \notin p.cleanupTimers},
            !.cleanupTimers = {},
            !.cleared = TRUE]

Clear ==
  /\ cache' = <<>>
  /\ pendingRequests' = {}
  /\ metrics' = ZeroMetrics
  /\ responseTimes' = <<>>
  /\ priceChanges' = <<>>
  /\ pred' = ClearedTracking(pred)
  /\ inflight' = [f \in Flights |->
                    IF f[2] = "cur" THEN 0
                    ELSE inflight[<<f[1], "cur">>] + inflight[<<f[1], "old">>]]
  /\ last' = [op |-> "clear",
              had |-> [keys |-> {cache[i].key : i \in 1..Len(cache)},
                       patterns |-> Len(pred.usagePatterns),
                       queued |-> Len(pred.warmingQueue),
                       tracked |-> pred.cleanupTimers,
                       histories |-> Len(priceChanges)]]
  /\ UNCHANGED <<options, now, keyIn, keyOut>>

\* cache.has(k): an entry that is not stale; the store is left as it is
LRUHas(c, k, t) == LRUHasKey(c, k) /\ ~LRUIsStale(c[LRUIndex(c, k)], t)

\* a callback that does not look into the store
WarmUpFiresIgnoringStore(p, c, tm, t, raises) ==
  LET key == tm.key
      counted ==
        IF ~raises /\ InQueue(p.warmingQueue, key) /\ MapHas(p.usagePatterns, key)
        THEN MapSet(p.usagePatterns, key,
                    [MapGet(p.usagePatterns, key) EXCEPT !.count = @ + 1])
        ELSE p.usagePatterns
  IN [p EXCEPT !.usagePatterns = counted,
               !.warmingQueue = SelectSeq(@, LAMBDA k : k # key),
               !.cleanupTimers = @ \ {tm.id},
               !.timers = @ \ {tm}]

\* the callback of a warm-up timer, once the timer is due; raises: the body
\* of its try block raises before it has changed anything
WarmUpFires(p, c, tm, t, raises) ==
  LET key == tm.key
      counted ==
        IF /\ ~raises
           /\ InQueue(p.warmingQueue, key) /\ ~LRUHas(c, key, t)
           /\ MapHas(p.usagePatterns, key)
        THEN MapSet(p.usagePatterns, key,
                    [MapGet(p.usagePatterns, key) EXCEPT !.count = @ + 1])
        ELSE p.usagePatterns
  IN [p EXCEPT !.usagePatterns = counted,
               !.warmingQueue = SelectSeq(@, LAMBDA k : k # key),
               !.cleanupTimers = @ \ {tm.id},
               !.timers = @ \ {tm}]

FireWarmUp(tm, raises) ==
  /\ tm \in pred.timers /\ tm.kind = "warmup" /\ tm.due <= now
  /\ pred' = WarmUpFires(pred, cache, tm, now, raises)
  /\ last' = [op |-> "fire", timer |-> tm, raises |-> raises,
              queued |-> InQueue(pred.warmingQueue, tm.key),
              had |-> [patterns |-> pred.usagePatterns,
                       stored |-> LRUHasKey(cache, tm.key)]]
  /\ UNCHANGED <<options, now, cache, pendingRequests, metrics, responseTimes,
                 priceChanges, inflight, keyIn, keyOut>>

Tick ==
  /\ now + MsPerSecond <= MaxTicks * MsPerSecond
  /\ now' = now + MsPerSecond
  /\ last' = [op |-> "tick"]
  /\ UNCHANGED <<options, cache, pendingRequests, metrics, responseTimes,
                 priceChanges, pred, inflight, keyIn, keyOut>>

Next ==
  \/ \E r \in CoreRequests : Pre(r)
  \/ \E r \in CoreRequests, g \in Generations, resp \in Responses : Post(r, g, resp)
  \/ \E r \in CoreRequests, g \in Generations : Reject(r, g)
  \/ Tick

\* quote requests of a client in basic mode
Spec == Init /\ [][Next]_vars

NextEdge ==
  \/ \E r \in EdgeRequests : Pre(r)
  \/ \E r \in EdgeRequests, g \in Generations, resp \in EdgeResponses : Post(r, g, resp)
  \/ \E r \in EdgeRequests, g \in Generations : Reject(r, g)
  \/ Tick

\* requests of every kind, in basic mode
SpecEdge == Init /\ [][NextEdge]_vars

InitAdaptive ==
  /\ Constructed(OptsAdaptive)
  /\ keyIn = NoKeyRun
  /\ keyOut = NoKeyRun

NextAdaptive ==
  \/ \E r \in {Req(UrlOther, "GET")} : Pre(r)
  \/ \E r \in {Req(UrlOther, "GET")}, g \in Generations, resp \in AdaptiveResponses :
        Post(r, g, resp)
  \/ \E r \in {Req(UrlOther, "GET")}, g \in Generations : Reject(r, g)
  \/ Tick

\* quote requests of a client in adaptive mode
SpecAdaptive == InitAdaptive /\ [][NextAdaptive]_vars

\* the same requests, on an instance that is also cleared
NextClear == Next \/ Clear

SpecClear == Init /\ [][NextClear]_vars

(***************************************************************************)
(* Runs of the key builder alone: two quote requests, each written into a  *)
(* URL in its own way, are fingerprinted one after the other.              *)
(***************************************************************************)
KeyTuples ==
  [inputMint : {Null, Some(<<SOL>>), Some(<<"MintA">>)},
   outputMint : {Some(<<USDC>>)},
   amount : {Some(<<"1">>), Some(<<"1", "2">>)},
   slippageBps : {Null, Some(<<"1">>)}]

UrlA == QuoteUrl(keyIn.ta, keyIn.ea)
UrlB == QuoteUrl(keyIn.tb, keyIn.eb)

InitKey ==
  /\ Constructed(OptsBasic)
  /\ keyIn \in [used : {TRUE}, ta : KeyTuples, ea : Encodings,
                 tb : KeyTuples, eb : Encodings]
  /\ keyOut = [a |-> <<>>, b |-> <<>>]

KeyA ==
  /\ keyOut.a = <<>>
  /\ keyOut' = [keyOut EXCEPT !.a = <<createCacheKey(UrlA)>>]
  /\ UNCHANGED <<options, now, cache, pendingRequests, metrics, responseTimes,
                 priceChanges, pred, inflight, last, keyIn>>

KeyB ==
  /\ keyOut.b = <<>>
  /\ keyOut' = [keyOut EXCEPT !.b = <<createCacheKey(UrlB)>>]
  /\ UNCHANGED <<options, now, cache, pendingRequests, metrics, responseTimes,
                 priceChanges, pred, inflight, last, keyIn>>

NextKey == KeyA \/ KeyB \/ Tick

SpecKey == InitKey /\ [][NextKey]_vars

\* quote requests of a client in predictive mode, and the warm-up timers
PredictiveRequests ==
  {Req(UrlOther, "GET"), Req(UrlRelative, "GET"), Req(UrlSwap, "POST")}

\* predictive mode on, and off
PredictiveOptionSets == {OptsPredictive, OptsAdaptive}

InitPredictive ==
  /\ \E opts \in PredictiveOptionSets : Constructed(opts)
  /\ keyIn = NoKeyRun
  /\ keyOut = NoKeyRun

NextPredictive ==
  \/ \E r \in PredictiveRequests : Pre(r)
  \/ \E r \in PredictiveRequests, g \in Generations :
       Post(r, g, OkResponse(QuoteBody("1"), TRUE))
  \/ \E tm \in pred.timers, raises \in BOOLEAN : FireWarmUp(tm, raises)
  \/ (~pred.cleared /\ Clear)
  \/ Tick

SpecPredictive == InitPredictive /\ [][NextPredictive]_vars

\* requests with more fingerprints than the store has room for
InitLRU ==
  /\ \E opts \in {OptsBasic, OptsOne} : Constructed(opts)
  /\ keyIn = NoKeyRun
  /\ keyOut = NoKeyRun

NextLRU ==
  \/ \E r \in LRURequests : Pre(r)
  \/ \E r \in LRURequests, g \in Generations, resp \in LRUResponses : Post(r, g, resp)
  \/ Clear
  \/ Tick

SpecLRU == InitLRU /\ [][NextLRU]_vars

(***************************************************************************)
(* Runs of the TTL policy alone: one accepted configuration, and two       *)
(* requests, each with the price history of its fingerprint.               *)
(***************************************************************************)
PolicyOptions ==
  {o \in [maxSize : {<<2>>},
          defaultTTL : {<<>>, <<1>>, <<2>>, <<61>>},
          minTTL : {<<>>, <<1>>, <<2>>},
          maxTTL : {<<>>, <<1>>, <<2>>, <<3>>},
          enableAdaptiveTTL : BOOLEAN, enablePredictive : {FALSE}] : Constructs(o)}

\* <<>>: the fingerprint has no history
Histories ==
  {<<>>, <<Num(1)>>, <<Num(1), Num(1)>>, <<Num(1), Num(2)>>,
   <<Num(1), Num(2), Num(4), Num(8)>>, <<Num(1), Num(2), Num(1)>>,
   <<Num(50), Num(51), Num(50)>>}

\* this.priceChanges when the fingerprint of url has the history h
PricesFor(url, h) ==
  IF h = <<>> THEN <<>> ELSE MapSet(<<>>, createCacheKey(url), h)

InitPolicy ==
  /\ Constructed(OptsBasic)
  /\ keyIn \in [used : {TRUE}, opts : PolicyOptions,
                 urlA : {UrlSolUsdc, UrlOther}, histA : Histories,
                 urlB : {UrlSolUsdc, UrlOther}, histB : Histories]
  /\ keyOut = [a |-> <<>>, b |-> <<>>]

PolicyA ==
  /\ keyOut.a = <<>>
  /\ keyOut' = [keyOut EXCEPT !.a =
       <<getSmartTTL(keyIn.opts, PricesFor(keyIn.urlA, keyIn.histA), keyIn.urlA)>>]
  /\ UNCHANGED <<options, now, cache, pendingRequests, metrics, responseTimes,
                 priceChanges, pred, inflight, last, keyIn>>

PolicyB ==
  /\ keyOut.b = <<>>
  /\ keyOut' = [keyOut EXCEPT !.b =
       <<getSmartTTL(keyIn.opts, PricesFor(keyIn.urlB, keyIn.histB), keyIn.urlB)>>]
  /\ UNCHANGED <<options, now, cache, pendingRequests, metrics, responseTimes,
                 priceChanges, pred, inflight, last, keyIn>>

NextPolicy == PolicyA \/ PolicyB

SpecPolicy == InitPolicy /\ [][NextPolicy]_vars

(***************************************************************************)
(* Runs of calculateVolatility alone, on the history of one fingerprint    *)
(* (<<>>: no history), and runs of trackPriceChange alone, on a history    *)
(* that earlier responses filled.                                          *)
(***************************************************************************)
PriceValues == {Num(0), Num(-1), Num(1), Num(2), NotFinite}
VolHistories == UNION {[1..k -> PriceValues] : k \in 0..MaxHistory}

VolKey == createCacheKey(UrlOther)

InitVol ==
  /\ Constructed(OptsAdaptive)
  /\ keyIn \in [used : {TRUE}, hist : VolHistories]
  /\ keyOut = [vol |-> <<>>]

Volatility ==
  /\ keyOut.vol = <<>>
  /\ keyOut' = [vol |-> <<calculateVolatility(PricesFor(UrlOther, keyIn.hist), VolKey)>>]
  /\ UNCHANGED <<options, now, cache, pendingRequests, metrics, responseTimes,
                 priceChanges, pred, inflight, last, keyIn>>

NextVol == Volatility

SpecVol == InitVol /\ [][NextVol]_vars

\* response bodies: amounts "1", "2", "0", "x", no amount, no JSON
HistoryBodies ==
  {QuoteBody("1"), QuoteBody("2"), QuoteBody("0"), QuoteBody("x"),
   JSONstringify([inAmount |-> "1"]), [raw |-> "invalid json{"]}

InitHistory ==
  /\ Constructed(OptsAdaptive)
  /\ \E k \in 0..MaxPricePoints :
       /\ keyIn = [used |-> TRUE, filled |-> k]
       /\ keyOut = [prices |-> PricesFor(UrlOther, [i \in 1..k |-> Num(1)]),
                    log |-> [i \in 1..k |-> QuoteBody("1")]]

Observe(body) ==
  /\ Len(keyOut.log) < keyIn.filled + MaxArrivals
  /\ keyOut' = [prices |-> trackPriceChange(keyOut.prices, VolKey, body),
                log |-> Append(keyOut.log, body)]
  /\ UNCHANGED <<options, now, cache, pendingRequests, metrics, responseTimes,
                 priceChanges, pred, inflight, last, keyIn>>

NextHistory == \E body \in HistoryBodies : Observe(body)

SpecHistory == InitHistory /\ [][NextHistory]_vars

(***************************************************************************)
(* Quote requests for one pair of mints, in basic mode.                    *)
(***************************************************************************)
InitServe ==
  /\ Constructed(OptsBasic)
  /\ keyIn = NoKeyRun
  /\ keyOut = NoKeyRun

NextServe ==
  \/ \E r \in ServeRequests : Pre(r)
  \/ \E r \in ServeRequests, g \in Generations, amount \in {"1", "2"} :
       Post(r, g, OkResponse(QuoteBody(amount), TRUE))
  \/ Tick

SpecServe == InitServe /\ [][NextServe]_vars

(***************************************************************************)
(* getMetrics().  keyOut.snap is the object the last call returned: live   *)
(* tells whether it is the metrics object of the instance itself, val are  *)
(* its own counters when it is not.                                        *)
(***************************************************************************)
\* a getMetrics that returns this.metrics
getMetricsLive(m) == [live |-> TRUE, val |-> m]

\* getMetrics(): { ...this.metrics }, a new object with the five counters
getMetrics(m) == [live |-> FALSE, val |-> m]

\* the counters read from the returned object
Returned == IF keyOut.snap[1].live THEN metrics ELSE keyOut.snap[1].val

InitMetrics ==
  /\ Constructed(OptsBasic)
  /\ keyIn = [used |-> TRUE]
  /\ keyOut = [snap |-> <<>>, taken |-> ZeroMetrics]

GetMetrics ==
  /\ keyOut' = [snap |-> <<getMetrics(metrics)>>, taken |-> metrics]
  /\ last' = [op |-> "getMetrics"]
  /\ UNCHANGED <<options, now, cache, pendingRequests, metrics, responseTimes,
                 priceChanges, pred, inflight, keyIn>>

\* the caller assigns to a counter of the returned object
WriteReturned ==
  /\ keyOut.snap # <<>>
  /\ IF keyOut.snap[1].live
     THEN /\ metrics' = [metrics EXCEPT !.hits = -1]
          /\ UNCHANGED keyOut
     ELSE /\ keyOut' = [keyOut EXCEPT !.snap[1].val.hits = -1]
          /\ UNCHANGED metrics
  /\ last' = [op |-> "write"]
  /\ UNCHANGED <<options, now, cache, pendingRequests, responseTimes,
                 priceChanges, pred, inflight, keyIn>>

NextMetrics ==
  \/ \E r \in {Req(UrlOther, "GET"), Req(UrlThird, "GET")} : Pre(r)
  \/ \E r \in {Req(UrlOther, "GET"), Req(UrlThird, "GET")}, g \in Generations :
       Post(r, g, OkResponse(QuoteBody("1"), TRUE))
  \/ Tick
  \/ GetMetrics
  \/ WriteReturned

SpecMetrics == InitMetrics /\ [][NextMetrics]_vars

(***************************************************************************)
(* Two instances.  The variables hold the fields of the instance that the  *)
(* client is calling, keyIn.ref is the reference to that object; keyOut    *)
(* holds the reference to the other instance and, when that is another     *)
(* object, its fields.  Timer handles are written per instance.  The first *)
(* instance is predictive, the second a basic one.                         *)
(***************************************************************************)
\* a factory that hands out the instance it made last
SameQuoteCacheMiddleware(allocated) == allocated

\* createQuoteCacheMiddleware(options): new QuoteCacheMiddleware(options), a
\* reference to an object that did not exist before
createQuoteCacheMiddleware(allocated) == allocated + 1

\* the fields of a new instance
NewInstance(opts) ==
  [options |-> opts, cache |-> <<>>, pendingRequests |-> {}, metrics |-> ZeroMetrics,
   responseTimes |-> <<>>, priceChanges |-> <<>>,
   pred |-> EmptyPred(InitialTimers(opts, 0)),
   inflight |-> [f \in Flights |-> 0]]

\* the fields of the instance in the variables
ThisInstance ==
  [options |-> options, cache |-> cache, pendingRequests |-> pendingRequests,
   metrics |-> metrics, responseTimes |-> responseTimes,
   priceChanges |-> priceChanges, pred |-> pred, inflight |-> inflight]

\* the fields of the other instance
OtherInstance == IF keyOut.ref = keyIn.ref THEN ThisInstance ELSE keyOut.state

InitTwo ==
  /\ Constructed(OptsPredictive)
  /\ keyIn = [used |-> TRUE, ref |-> createQuoteCacheMiddleware(0), turns |-> 0]
  /\ keyOut = [ref |-> createQuoteCacheMiddleware(keyIn.ref),
               state |-> NewInstance(OptsBasic)]

\* the client turns to the other instance
Turn ==
  /\ keyIn.turns < MaxTurns
  /\ keyIn' = [keyIn EXCEPT !.ref = keyOut.ref, !.turns = @ + 1]
  /\ keyOut' = [ref |-> keyIn.ref, state |-> ThisInstance]
  /\ options' = OtherInstance.options
  /\ cache' = OtherInstance.cache
  /\ pendingRequests' = OtherInstance.pendingRequests
  /\ metrics' = OtherInstance.metrics
  /\ responseTimes' = OtherInstance.responseTimes
  /\ priceChanges' = OtherInstance.priceChanges
  /\ pred' = OtherInstance.pred
  /\ inflight' = OtherInstance.inflight
  /\ last' = [op |-> "turn"]
  /\ UNCHANGED now

NextTwo ==
  \/ Pre(Req(UrlOther, "GET"))
  \/ \E g \in Generations : Post(Req(UrlOther, "GET"), g, OkResponse(QuoteBody("1"), TRUE))
  \/ \E tm \in pred.timers : FireWarmUp(tm, FALSE)
  \/ (~pred.cleared /\ Clear)
  \/ Tick
  \/ Turn

SpecTwo == InitTwo /\ [][NextTwo]_vars

(***************************************************************************)
(* Runs of performCleanup alone, on maps that earlier requests filled.     *)
(* Fingerprint(i) is the fingerprint of the i-th quote that was asked for; *)
(* touched lists the fingerprints of the price histories, the one updated  *)
(* last at the end; at is the time of the sweep.                           *)
(***************************************************************************)
Fingerprint(i) ==
  MD5Hex(JSONstringify([inputMint |-> Some(<<i>>), outputMint |-> Some(<<0>>),
                        amount |-> Some(<<1>>), slippageBps |-> Null]))

SweepStart == 2 * CleanupAge

\* ages of a usage pattern at the first sweep
PatternAges == {0, MsPerSecond, CleanupAge, CleanupAge + 1}

PatternMap(n, LastUsed(_)) ==
  [i \in 1..n |-> [key |-> Fingerprint(i),
                   val |-> [count |-> 1, lastUsed |-> LastUsed(i)]]]

\* a few patterns of any age
SmallPatterns ==
  {PatternMap(Len(ages), LAMBDA i : SweepStart - ages[i]) :
     ages \in UNION {[1..k -> PatternAges] : k \in 0..MaxPatterns}}

\* many patterns: used in the order they were first used, or in the opposite
\* order, or all but the first within the hour
LargePatterns ==
  UNION {{PatternMap(n, LAMBDA i : SweepStart - (n - i)),
          PatternMap(n, LAMBDA i : SweepStart - i),
          PatternMap(n, LAMBDA i : IF i = 1 THEN SweepStart - CleanupAge - 1
                                    ELSE SweepStart - (n - i))} :
           n \in {MapLimit, MapLimit + 1}}

HistoryMap(n) ==
  [i \in 1..n |-> [key |-> Fingerprint(i), val |-> <<Num(1)>>]]

\* the histories, and the order in which they were last updated: the first
\* history may have got a second price after all the others were written
HistoryRuns ==
  UNION {{[prices |-> HistoryMap(n), touched |-> [i \in 1..n |-> Fingerprint(i)]]} \cup
         (IF n < 2 THEN {}
          ELSE {[prices |-> trackPriceChange(HistoryMap(n), Fingerprint(1), QuoteBody("2")),
                 touched |-> [i \in 1..n |-> Fingerprint(IF i = n THEN 1 ELSE i + 1)]]}) :
           n \in {0, 1, 2, MapLimit, MapLimit + 1}}

InitSweep ==
  /\ Constructed(OptsPredictive)
  /\ \E run \in HistoryRuns, patterns \in SmallPatterns \cup LargePatterns :
       /\ keyIn = [used |-> TRUE, touched |-> run.touched]
       /\ keyOut = [priceChanges |-> run.prices, usagePatterns |-> patterns,
                    at |-> SweepStart, sweeps |-> 0, before |-> <<>>]

\* the interval timer fires at time keyOut.at
Sweep ==
  /\ keyOut.sweeps < MaxSweeps
  /\ LET swept == performCleanup(keyOut.priceChanges, keyOut.usagePatterns, keyOut.at)
     IN keyOut' = [priceChanges |-> swept.priceChanges,
                   usagePatterns |-> swept.usagePatterns,
                   at |-> keyOut.at + CleanupInterval,
                   sweeps |-> keyOut.sweeps + 1,
                   before |-> <<[priceChanges |-> keyOut.priceChanges,
                                 usagePatterns |-> keyOut.usagePatterns,
                                 at |-> keyOut.at]>>]
  /\ UNCHANGED <<options, now, cache, pendingRequests, metrics, responseTimes,
                 priceChanges, pred, inflight, last, keyIn>>

NextSweep == Sweep

SpecSweep == InitSweep /\ [][NextSweep]_vars

(***************************************************************************)
(* Runs of scheduleWarmUp alone, on an instance whose first n fingerprints *)
(* are queued for a warm-up, each with its timer.                          *)
(***************************************************************************)
WarmingState(n) ==
  LET TimerOf(i) == [id |-> i + 1, kind |-> "warmup", key |-> Fingerprint(i),
                     due |-> OrDefault(OptsPredictive.defaultTTL, DefaultTTLSeconds)
                               * MsPerSecond]
      timers == {CleanupTimer(0)} \cup {TimerOf(i) : i \in 1..n}
  IN [usagePatterns |-> PatternMap(n, LAMBDA i : 0),
      warmingQueue |-> [i \in 1..n |-> Fingerprint(i)],
      timers |-> timers,
      cleanupTimers |-> {tm.id : tm \in timers},
      nextTimer |-> n + 2,
      cleared |-> FALSE]

\* the fingerprints asked for: the oldest and the newest of the queue, and new ones
WarmKeys(n) == {Fingerprint(i) : i \in {1, n} \cup ((n + 1)..(n + MaxArrivals))}

InitWarm ==
  /\ Constructed(OptsPredictive)
  /\ \E n \in (MaxWarming - MaxArrivals)..MaxWarming :
       /\ keyIn = [used |-> TRUE, filled |-> n]
       /\ keyOut = [pred |-> WarmingState(n), calls |-> 0, before |-> <<>>]

ScheduleWarmUp(k) ==
  /\ keyOut.calls < MaxArrivals
  /\ keyOut' = [pred |-> scheduleWarmUp(options, keyOut.pred, k, now),
                calls |-> keyOut.calls + 1,
                before |-> <<[queue |-> keyOut.pred.warmingQueue, key |-> k]>>]
  /\ UNCHANGED <<options, now, cache, pendingRequests, metrics, responseTimes,
                 priceChanges, pred, inflight, last, keyIn>>

NextWarm == \E k \in WarmKeys(keyIn.filled) : ScheduleWarmUp(k)

SpecWarm == InitWarm /\ [][NextWarm]_vars

(***************************************************************************)
(* Runs of the constructor alone, on one configuration.                    *)
(***************************************************************************)
ConfigOptions ==
  [maxSize : {<<>>, <<-1>>, <<0>>, <<2>>, <<10001>>},
   defaultTTL : {<<>>, <<1>>, <<2>>, <<3>>},
   minTTL : {<<>>, <<1>>, <<2>>},
   maxTTL : {<<>>, <<1>>, <<2>>, <<3>>},
   enableAdaptiveTTL : BOOLEAN, enablePredictive : BOOLEAN]

InitConfig ==
  /\ Constructed(OptsBasic)
  /\ keyIn \in [used : {TRUE}, opts : ConfigOptions]
  /\ keyOut = [built |-> <<>>]

\* new QuoteCacheMiddleware(opts) returns (TRUE) or raises (FALSE)
\* and, when it returns, leaves the new instance's options and timers
Construct ==
  /\ keyOut.built = <<>>
  /\ keyOut' = [built |-> <<Constructs(keyIn.opts)>>]
  /\ IF Constructs(keyIn.opts)
     THEN /\ options' = keyIn.opts
          /\ pred' = EmptyPred(InitialTimers(keyIn.opts, now))
     ELSE UNCHANGED <<options, pred>>
  /\ UNCHANGED <<now, cache, pendingRequests, metrics, responseTimes,
                 priceChanges, inflight, last, keyIn>>

NextConfig == Construct

SpecConfig == InitConfig /\ [][NextConfig]_vars

(***************************************************************************)
(* Properties.                                                             *)
(***************************************************************************)
CoreTuples == {TupleSolUsdc, TupleOther}

\* the quote request a query string was written from
RequestOf(u) ==
  CHOOSE t \in CoreTuples : \E enc \in Encodings : u.query = BuildQuery(t, enc)
SameTuple(u1, u2) == RequestOf(u1) = RequestOf(u2)

LastIsLookup == last.op = "pre" /\ "seen" \in DOMAIN last

\* the outbound calls for fingerprint k that pre let through since the last
\* clear() and that have not completed
OutboundFor(k) ==
  SumOver(inflight,
          {f \in Flights : /\ f[2] = "cur"
                           /\ Cacheable(f[1])
                           /\ URLParses(f[1].url)
                           /\ createCacheKey(f[1].url) = k})

CoreKeys == {createCacheKey(r.url) : r \in CoreRequests}

\* C1: lookups for one fingerprint that run while a call for it is in
\* flight attach to that call, so at most one outbound call per fingerprint
\* is in flight.
C1_Dedup == \A k \in CoreKeys : OutboundFor(k) <= 1

\* C2: a lookup that finds an entry younger than the TTL the policy chose
\* for it is a hit.
C2_HitBeforeExpiry ==
  (LastIsLookup /\ last.seen.present /\ last.seen.age < last.seen.ttl)
    => last.outcome = "hit"

\* C3: a lookup that finds an entry as old as its TTL, or older, is a miss.
C3_MissAfterExpiry ==
  (LastIsLookup /\ last.seen.present /\ last.seen.age >= last.seen.ttl)
    => last.outcome = "miss"

CachedBody(k) == cache[LRUIndex(cache, k)].value.response.body

\* C4: on a hit, the data put in place of the request is the response body
\* that the latest successful post stored for the fingerprint.
C4_HitReturnsBody ==
  (LastIsLookup /\ last.outcome = "hit")
    => DataUrlText(last.out) = CachedBody(last.key)

\* C5: no entry of the store comes from a request that is not a GET of the
\* quote path.
C5_PassThrough ==
  \A i \in 1..Len(cache) : Cacheable(cache[i].value.from)

IsSuccess(status) == status >= 200 /\ status <= 299

C7_PostNeverRejects ==
  last.op = "post" => (last.outcome = "returned" /\ last.out = last.resp)

\* C8: a GET pre on a URL that contains the quote path never raises.
C8_PreNeverThrows ==
  (last.op = "pre" /\ last.method = "GET" /\ UrlIncludesQuote(last.url))
    => last.outcome # "throw"

\* C9: two requests with the same (inputMint, outputMint, amount,
\* slippageBps) get the same fingerprint, whatever the parameter order, the
\* escaping and the further parameters of their URLs, and whatever the times
\* at which the two fingerprints are computed.
C9_Determinism ==
  (keyIn.used /\ keyOut.a # <<>> /\ keyOut.b # <<>> /\ keyIn.ta = keyIn.tb)
    => keyOut.a = keyOut.b

\* both fingerprints computed for one request written in two different ways
C9_Witness ==
  /\ keyIn.used /\ keyOut.a # <<>> /\ keyOut.b # <<>>
  /\ keyIn.ta = keyIn.tb
  /\ keyIn.ea.reverse # keyIn.eb.reverse
  /\ keyIn.ea.escape # keyIn.eb.escape

LookupOutcome(r) ==
  Lookup(cache, pendingRequests, options, createCacheKey(r.url), now).outcome

\* C10: an entry stored for a request is the entry of every request with the
\* same four parameters, and lookups for such requests have the same outcome.
C10_Coarseness ==
  /\ \A i \in 1..Len(cache) : \A r \in CoreRequests :
        SameTuple(cache[i].value.from.url, r.url)
          => cache[i].key = createCacheKey(r.url)
  /\ \A r1, r2 \in CoreRequests :
        SameTuple(r1.url, r2.url) => LookupOutcome(r1) = LookupOutcome(r2)

\* a hit served from an entry that a request with another parameter stored
C10_Witness ==
  /\ LastIsLookup /\ last.outcome = "hit"
  /\ cache[LRUIndex(cache, last.key)].value.from.url # last.url
  /\ ParamsGet(last.url.query, "onlyDirectRoutes")
       # ParamsGet(cache[LRUIndex(cache, last.key)].value.from.url.query,
                   "onlyDirectRoutes")

\* the configurations that are to be refused: an advanced mode is asked for
\* and the TTLs or the size are out of order
Refused(o) ==
  LET minTTL == IF o.minTTL = <<>> THEN DefaultMinTTLSeconds ELSE o.minTTL[1]
      maxTTL == IF o.maxTTL = <<>> THEN DefaultMaxTTLSeconds ELSE o.maxTTL[1]
      defaultTTL == IF o.defaultTTL = <<>> THEN DefaultTTLSeconds ELSE o.defaultTTL[1]
      maxSize == IF o.maxSize = <<>> THEN DefaultMaxSize ELSE o.maxSize[1]
  IN /\ (o.enableAdaptiveTTL \/ o.enablePredictive)
     /\ \/ minTTL >= maxTTL
        \/ defaultTTL < minTTL \/ defaultTTL > maxTTL
        \/ maxSize < 1 \/ maxSize > MaxValidSize

\* C11: construction fails if and only if an advanced mode is asked for with
\* minTTL >= maxTTL, defaultTTL outside [minTTL, maxTTL] or maxSize outside
\* [1, 10000]; in basic mode every configuration is accepted.
C11_ConfigValidation ==
  keyOut.built # <<>> => (keyOut.built[1] <=> ~Refused(keyIn.opts))

\* C12: the store never holds more than maxSize entries.
C12_Capacity == Len(cache) <= CacheMax(options)

\* a post has stored a new fingerprint into a store that was full
C12_Witness ==
  /\ last.op = "post" /\ "had" \in DOMAIN last
  /\ ~last.had.present
  /\ last.had.size = CacheMax(options)
  /\ Len(cache) = CacheMax(options)

KeysOf(c) == [i \in 1..Len(c) |-> c[i].key]
Without(ks, k) == SelectSeq(ks, LAMBDA x : x # k)

\* C13: the store is kept in the order of the last store or hit of its
\* entries: a store of a new fingerprint into a full store removes the first
\* entry of that order and nothing else, and a lookup that is not a hit
\* leaves the order of the entries as it is.
C13_LRUEviction ==
  [][ /\ (/\ last'.op = "post" /\ "had" \in DOMAIN last'
          /\ ~last'.had.present /\ last'.had.size = CacheMax(options))
         => KeysOf(cache') = Append(Tail(KeysOf(cache)), createCacheKey(last'.url))
      /\ (/\ last'.op = "pre" /\ "seen" \in DOMAIN last'
          /\ last'.outcome # "hit")
         => KeysOf(cache') \in {KeysOf(cache), Without(KeysOf(cache), last'.key)}
    ]_vars

\* the configured TTL bounds, in milliseconds
MinTTLOf(o) ==
  (IF o.minTTL = <<>> THEN DefaultMinTTLSeconds ELSE o.minTTL[1]) * MsPerSecond
MaxTTLOf(o) ==
  (IF o.maxTTL = <<>> THEN DefaultMaxTTLSeconds ELSE o.maxTTL[1]) * MsPerSecond
InTTLBounds(o, ttl) == MinTTLOf(o) <= ttl /\ ttl <= MaxTTLOf(o)

\* C14: the TTL the policy returns lies in [minTTL, maxTTL].
C14_TTLBounds ==
  (keyIn.used /\ keyOut.a # <<>>) => InTTLBounds(keyIn.opts, keyOut.a[1])

Abs(x) == IF x < 0 THEN 0 - x ELSE x
\* some consecutive prices differ by more than 5 %
HighSwings(h) ==
  \E i \in 2..Len(h) : 100 * Abs(h[i].n - h[i - 1].n) > 5 * h[i - 1].n
\* at least two prices, and consecutive prices differ by less than 1 %
StablePrices(h) ==
  /\ Len(h) >= 2
  /\ \A i \in 2..Len(h) : 100 * Abs(h[i].n - h[i - 1].n) < h[i - 1].n

\* C15: in adaptive mode, a fingerprint whose prices swing by more than 5 %
\* gets a lower TTL than a fingerprint of the same request whose prices are
\* stable, and both TTLs lie in [minTTL, maxTTL].
C15_TTLVolatility ==
  (/\ keyIn.used /\ keyOut.a # <<>> /\ keyOut.b # <<>>
   /\ keyIn.opts.enableAdaptiveTTL
   /\ keyIn.urlA = keyIn.urlB
   /\ HighSwings(keyIn.histA) /\ StablePrices(keyIn.histB))
    => /\ keyOut.a[1] < keyOut.b[1]
       /\ InTTLBounds(keyIn.opts, keyOut.a[1])
       /\ InTTLBounds(keyIn.opts, keyOut.b[1])

OnPopularList(url) ==
  \E name \in {"inputMint", "outputMint"} :
    ParamsGet(url.query, name) \in {Some(<<SOL>>), Some(<<USDC>>)}

\* C16: with no price history, the TTL of a request with an asset on the
\* popularity list is at least the TTL of a request with no such asset.
C16_PopularLonger ==
  (/\ keyIn.used /\ keyOut.a # <<>> /\ keyOut.b # <<>>
   /\ keyIn.histA = <<>> /\ keyIn.histB = <<>>
   /\ OnPopularList(keyIn.urlA) /\ ~OnPopularList(keyIn.urlB))
    => keyOut.a[1] >= keyOut.b[1]

\* the baseline of a request, clamped to the bounds the policy uses
ClampedBaseline(o, url) ==
  LET base == IF OnPopularList(url) THEN PopularTTL
              ELSE OrDefault(o.defaultTTL, DefaultTTLSeconds) * MsPerSecond
      lo == OrDefault(o.minTTL, DefaultMinTTLSeconds) * MsPerSecond
      hi == OrDefault(o.maxTTL, DefaultMaxTTLSeconds) * MsPerSecond
  IN Min2(hi, Max2(lo, base))

\* C17: in adaptive mode, a history of zero or one observation leaves the
\* TTL at the clamped baseline.
C17_TwoObservations ==
  (/\ keyIn.used /\ keyOut.a # <<>>
   /\ keyIn.opts.enableAdaptiveTTL
   /\ Len(keyIn.histA) <= 1)
    => keyOut.a[1] = ClampedBaseline(keyIn.opts, keyIn.urlA)

ValidPrice(x) == x.finite /\ x.n > 0
\* the consecutive pairs of valid prices
ValidPairs(h) == {i \in 2..Len(h) : ValidPrice(h[i - 1]) /\ ValidPrice(h[i])}

RECURSIVE ProductOver(_, _)
ProductOver(f, S) ==
  IF S = {} THEN 1
  ELSE LET x == CHOOSE y \in S : TRUE IN f[x] * ProductOver(f, S \ {x})

\* the variance of the relative changes of the valid pairs alone, as a
\* fraction over the product of the previous prices
PairVariance(h) ==
  LET P == ValidPairs(h)
      n == Cardinality(P)
      D == ProductOver([i \in P |-> h[i - 1].n], P)
      c == [i \in P |-> (h[i].n - h[i - 1].n) * (D \div h[i - 1].n)]
      sq == [i \in P |-> c[i] * c[i]]
  IN [num |-> n * SumOver(sq, P) - SumOver(c, P) * SumOver(c, P),
      den |-> n * n * D * D]

\* C18: the volatility of every history is a finite number >= 0; it is 0
\* when no consecutive pair is valid and for a constant history; pairs with
\* a non-positive or non-finite member do not enter the computation.
C18_VolatilityTotal ==
  (keyIn.used /\ keyOut.vol # <<>>) =>
    LET h == keyIn.hist
        v == keyOut.vol[1]
    IN /\ v.den > 0 /\ v.num >= 0
       /\ ValidPairs(h) = {} => v.num = 0
       /\ (\A i \in 1..Len(h) : h[i] = h[1]) => v.num = 0
       /\ ValidPairs(h) # {} =>
            v.num * PairVariance(h).den = PairVariance(h).num * v.den

\* a positive volatility for a history with a price that is not valid
C18_Witness ==
  /\ keyIn.used /\ keyOut.vol # <<>>
  /\ keyOut.vol[1].num > 0
  /\ \E i \in 1..Len(keyIn.hist) : ~ValidPrice(keyIn.hist[i])

\* the observation a response body carries is accepted
Accepted(body) ==
  /\ IsJSON(body)
  /\ "outAmount" \in DOMAIN JSONparse(body)
  /\ ValidPrice(ParseFloat(JSONparse(body).outAmount))
PriceOf(body) == ParseFloat(JSONparse(body).outAmount)
LastOf(q, n) == IF Len(q) <= n THEN q ELSE SubSeq(q, Len(q) - n + 1, Len(q))
HistoryNow ==
  IF MapHas(keyOut.prices, VolKey) THEN MapGet(keyOut.prices, VolKey) ELSE <<>>

\* C19: the history holds the last 10 accepted observations in the order of
\* their arrival, each a finite number > 0; a response with a missing,
\* unparseable or non-positive amount leaves it as it is.
C19_PriceHistory ==
  keyIn.used =>
    LET acc == SelectSeq(keyOut.log, Accepted)
        want == LastOf([i \in 1..Len(acc) |-> PriceOf(acc[i])], MaxPricePoints)
    IN /\ HistoryNow = want
       /\ Len(HistoryNow) <= MaxPricePoints
       /\ \A i \in 1..Len(HistoryNow) : ValidPrice(HistoryNow[i])

\* a full history after more than 10 accepted and one refused observation
C19_Witness ==
  /\ keyIn.used
  /\ Len(HistoryNow) = MaxPricePoints
  /\ Len(SelectSeq(keyOut.log, Accepted)) > MaxPricePoints
  /\ \E i \in 1..Len(keyOut.log) : ~Accepted(keyOut.log[i])
  /\ HistoryNow[MaxPricePoints] = Num(2)

\* C20: hits + misses = requests.
C20_MetricsBalance == metrics.hits + metrics.misses = metrics.requests

(***************************************************************************)
(* clear(), destroy() and the timers                                       *)
(***************************************************************************)
\* nothing is left: counters, store, tables, histories, patterns, queue, timers
AllReset ==
  /\ metrics = ZeroMetrics
  /\ cache = <<>>
  /\ pendingRequests = {}
  /\ priceChanges = <<>>
  /\ pred.usagePatterns = <<>>
  /\ pred.warmingQueue = <<>>
  /\ pred.cleanupTimers = {}

\* C21: when clear() (destroy() is the same call) returns, every metric is 0
\* and the store, the pending table, the price histories, the usage patterns,
\* the warming queue and the tracked timers are empty; a pre that comes next
\* for a fingerprint that was cached before the call is a miss.
C21_ClearResets ==
  [][/\ last'.op = "clear" => AllReset'
     /\ (/\ last.op = "clear" /\ last'.op = "pre"
         /\ last'.outcome \in {"hit", "attach", "miss"}
         /\ last'.key \in last.had.keys)
        => last'.outcome = "miss"]_vars

\* clear() has just emptied a store, a history, a pattern, a queue and timers
C21_Witness ==
  /\ last.op = "clear"
  /\ last.had.keys # {}
  /\ last.had.patterns > 0
  /\ last.had.queued > 0
  /\ Cardinality(last.had.tracked) >= 2
  /\ last.had.histories > 0

\* C22: once clear() or destroy() has returned, no warm-up timer and no
\* reclaimer sweep of the instance runs again, whatever requests follow.
C22_NoTimerAfterClear == last.op = "fire" => ~pred.cleared

\* the instance built by the constructor has a reclaimer timer registered
HasReclaimer ==
  \E tm \in pred.timers : tm.kind = "cleanup" /\ tm.id \in pred.cleanupTimers

\* C23: a newly constructed instance has a periodic reclaimer timer
\* registered if and only if enableAdaptiveTTL or enablePredictive is set; a
\* basic-mode instance has no tracked timer.
C23_ReclaimerOnlyAdvanced ==
  keyOut.built = <<TRUE>> =>
    /\ HasReclaimer <=> (options.enableAdaptiveTTL \/ options.enablePredictive)
    /\ (~options.enableAdaptiveTTL /\ ~options.enablePredictive)
         => (pred.cleanupTimers = {} /\ pred.timers = {})

\* an instance was built in predictive mode only, with its reclaimer
C23_Witness ==
  /\ keyOut.built = <<TRUE>>
  /\ options.enablePredictive /\ ~options.enableAdaptiveTTL
  /\ HasReclaimer

(***************************************************************************)
(* The sweep of the reclaimer                                              *)
(***************************************************************************)
Swept == keyOut.before # <<>>
BeforeSweep == keyOut.before[1]
EntriesOf(m) == {m[i] : i \in 1..Len(m)}
AgeAtSweep(e) == BeforeSweep.at - e.val.lastUsed

\* C24: a sweep over a usage-pattern map of at most 1000 entries removes
\* every entry last used more than 1 hour before the sweep and keeps every
\* entry used within the last hour.
C24_Purge ==
  (Swept /\ Len(BeforeSweep.usagePatterns) <= MapLimit) =>
    \A e \in EntriesOf(BeforeSweep.usagePatterns) :
      IF AgeAtSweep(e) > CleanupAge
      THEN ~MapHas(keyOut.usagePatterns, e.key)
      ELSE e \in EntriesOf(keyOut.usagePatterns)

\* a sweep met a pattern exactly one hour old and an older one
C24_Witness ==
  /\ Swept /\ Len(BeforeSweep.usagePatterns) <= MapLimit
  /\ \E e \in EntriesOf(BeforeSweep.usagePatterns) :
       /\ AgeAtSweep(e) = CleanupAge
       /\ MapHas(keyOut.usagePatterns, e.key)
  /\ \E e \in EntriesOf(BeforeSweep.usagePatterns) :
       /\ AgeAtSweep(e) > CleanupAge
       /\ ~MapHas(keyOut.usagePatterns, e.key)

\* the last n fingerprints of an update order
LastTouched(order, n) == {order[i] : i \in (Len(order) - n + 1)..Len(order)}

\* the patterns of a map that no n-th most recently used pattern is older than
MostRecentlyUsed(m, n) ==
  {e \in EntriesOf(m) :
     Cardinality({d \in EntriesOf(m) : d.val.lastUsed > e.val.lastUsed}) < n}

\* the patterns that the purge of a sweep leaves
RecentAtSweep ==
  {e \in EntriesOf(BeforeSweep.usagePatterns) : AgeAtSweep(e) <= CleanupAge}

\* C25: a sweep that finds more than 1000 entries in the price-history map
\* or (after its purge) in the usage-pattern map leaves exactly 500 entries
\* in that map, the most recently used ones (for price histories, the most
\* recently updated).
C25_Trim ==
  Swept =>
    /\ Len(BeforeSweep.priceChanges) > MapLimit =>
         /\ Len(keyOut.priceChanges) = MapKept
         /\ {e.key : e \in EntriesOf(keyOut.priceChanges)}
              = LastTouched(keyIn.touched, MapKept)
    /\ Cardinality(RecentAtSweep) > MapLimit =>
         /\ Len(keyOut.usagePatterns) = MapKept
         /\ EntriesOf(keyOut.usagePatterns)
              \subseteq MostRecentlyUsed(BeforeSweep.usagePatterns, MapKept)

(***************************************************************************)
(* Usage patterns and warm-ups                                             *)
(***************************************************************************)
\* the access count of a fingerprint, 0 when it has no pattern
CountOf(p, k) == IF MapHas(p.usagePatterns, k) THEN MapGet(p.usagePatterns, k).count ELSE 0

\* the step is a pre that computed a fingerprint
LookupStep == last'.op = "pre" /\ last'.outcome \in {"hit", "attach", "miss"}

\* C26: with predictive mode on, a pre for a GET quote request, hit or miss,
\* adds exactly 1 to the access count of its fingerprint and sets its
\* last-used time to now, and leaves the other patterns alone; with
\* predictive mode off, and in a pre for any other request, the usage-pattern
\* map does not change.
C26_UsageTracking ==
  [][/\ (options.enablePredictive /\ LookupStep) =>
          /\ MapHas(pred'.usagePatterns, last'.key)
          /\ MapGet(pred'.usagePatterns, last'.key)
               = [count |-> CountOf(pred, last'.key) + 1, lastUsed |-> now]
          /\ \A e \in EntriesOf(pred.usagePatterns) :
               e.key # last'.key => e \in EntriesOf(pred'.usagePatterns)
          /\ Len(pred'.usagePatterns) <= Len(pred.usagePatterns) + 1
     /\ (last'.op = "pre" /\ ~LookupStep) => pred'.usagePatterns = pred.usagePatterns
     /\ ~options.enablePredictive => pred'.usagePatterns = pred.usagePatterns]_vars

\* a hit was counted, later than the first use
C26_Witness ==
  /\ options.enablePredictive
  /\ last.op = "pre" /\ last.outcome = "hit"
  /\ now > 0
  /\ CountOf(pred, last.key) >= 2
  /\ MapGet(pred.usagePatterns, last.key).lastUsed = now

\* the pending warm-up timers of a fingerprint
WarmUpTimers(p, k) == {tm \in p.timers : tm.kind = "warmup" /\ tm.key = k}

\* the step puts fingerprint k into the queue and arms a timer for it
SchedulesWarmUp(k) ==
  /\ ~InQueue(pred.warmingQueue, k) /\ InQueue(pred'.warmingQueue, k)
  /\ WarmUpTimers(pred', k) \ WarmUpTimers(pred, k) # {}

\* the step leaves the queue and the timers as they are
NoScheduling ==
  /\ pred'.warmingQueue = pred.warmingQueue
  /\ pred'.timers = pred.timers

\* C27: with predictive mode on, a lookup for fingerprint F enqueues a
\* warm-up exactly when F's access count after the lookup exceeds 3 and F is
\* not already in the warming queue; so while no timer fires, lookups 1 to 3
\* schedule nothing, the 4th schedules one warm-up and later ones none.
C27_WarmUpThreshold ==
  [][(options.enablePredictive /\ LookupStep) =>
       IF CountOf(pred', last'.key) > WarmThreshold
          /\ ~InQueue(pred.warmingQueue, last'.key)
       THEN SchedulesWarmUp(last'.key)
       ELSE NoScheduling]_vars

\* the fourth lookup of a fingerprint has just scheduled its warm-up
C27_Witness ==
  /\ options.enablePredictive
  /\ last.op = "pre" /\ last.outcome \in {"hit", "miss"}
  /\ CountOf(pred, last.key) = WarmThreshold + 1
  /\ InQueue(pred.warmingQueue, last.key)
  /\ \E tm \in WarmUpTimers(pred, last.key) :
       tm.due = now + OrDefault(options.defaultTTL, DefaultTTLSeconds) * MsPerSecond

\* the fingerprints that have a pending warm-up timer
WithWarmUpTimer(p) == {tm.key : tm \in {tm \in p.timers : tm.kind = "warmup"}}

\* C28: there is at most one pending warm-up timer per fingerprint, and a
\* fingerprint has a pending warm-up timer only while it is in the warming
\* queue, also after the queue was trimmed.
C28_WarmUpExclusive ==
  \A k \in WithWarmUpTimer(keyOut.pred) :
    /\ Cardinality(WarmUpTimers(keyOut.pred, k)) <= 1
    /\ InQueue(keyOut.pred.warmingQueue, k)

Scheduled == keyOut.before # <<>>
BeforeSchedule == keyOut.before[1]

\* C29: after scheduleWarmUp the warming queue holds at most 100
\* fingerprints; an insertion that brings it above 100 removes the 50
\* scheduled first and leaves the rest, the new fingerprint last.
C29_QueueCap ==
  Scheduled =>
    /\ Len(keyOut.pred.warmingQueue) <= MaxWarming
    /\ (/\ Len(BeforeSchedule.queue) = MaxWarming
        /\ ~InQueue(BeforeSchedule.queue, BeforeSchedule.key))
       => keyOut.pred.warmingQueue
            = Append(SubSeq(BeforeSchedule.queue, WarmingDropped + 1, MaxWarming),
                     BeforeSchedule.key)

\* a fingerprint was scheduled into a full queue
C29_Witness ==
  /\ Scheduled
  /\ Len(BeforeSchedule.queue) = MaxWarming
  /\ ~InQueue(BeforeSchedule.queue, BeforeSchedule.key)
  /\ InQueue(keyOut.pred.warmingQueue, BeforeSchedule.key)
  /\ Len(keyOut.pred.warmingQueue) = MaxWarming + 1 - WarmingDropped

\* the store holds an entry for k whose time to live has not run out
InStore(k) ==
  \E i \in 1..Len(cache) :
    cache[i].key = k /\ ~(cache[i].ttl # 0 /\ now - cache[i].start > cache[i].ttl)

\* C30: when the warm-up timer of fingerprint F fires, whether its body runs
\* through or raises, F leaves the warming queue and the handle leaves the
\* tracked timers; nothing is stored and no request is issued; and F's
\* access count grows by 1 only if F was still queued, is absent from the
\* store and has a usage pattern, and otherwise stays as it was.
C30_WarmUpCompletion ==
  [][last'.op = "fire" =>
       LET tm == last'.timer
           F == tm.key
       IN /\ ~InQueue(pred'.warmingQueue, F)
          /\ tm.id \notin pred'.cleanupTimers
          /\ tm \notin pred'.timers
          /\ UNCHANGED <<cache, pendingRequests, inflight, metrics, priceChanges>>
          /\ \A e \in EntriesOf(pred.usagePatterns) :
               e.key # F => e \in EntriesOf(pred'.usagePatterns)
          /\ CountOf(pred', F) \in {CountOf(pred, F), CountOf(pred, F) + 1}
          /\ CountOf(pred', F) = CountOf(pred, F) + 1 =>
               /\ InQueue(pred.warmingQueue, F)
               /\ ~InStore(F)
               /\ MapHas(pred.usagePatterns, F)]_vars

\* a warm-up timer found its fingerprint in the store and did not count it
C30_Witness ==
  /\ last.op = "fire" /\ ~last.raises /\ last.queued
  /\ InStore(last.timer.key)
  /\ MapHas(last.had.patterns, last.timer.key)
  /\ MapGet(last.had.patterns, last.timer.key) = MapGet(pred.usagePatterns, last.timer.key)
  /\ ~InQueue(pred.warmingQueue, last.timer.key)

(***************************************************************************)
(* Instances                                                               *)
(***************************************************************************)
\* C31: a pre, post, clear or timer event of one instance, and the passing
\* of time, leave the store, the trackers, the warming queue, the timers and
\* the metrics of the other instance as they are.
C31_Isolation ==
  [][keyIn'.ref = keyIn.ref => OtherInstance' = OtherInstance]_vars

\* the second instance is cleared while the first holds an entry, a pattern,
\* a queued warm-up and its timers
C31_Witness ==
  /\ keyIn.turns = 1 /\ last.op = "clear"
  /\ keyOut.ref # keyIn.ref
  /\ keyOut.state.cache # <<>>
  /\ keyOut.state.metrics.requests > WarmThreshold
  /\ keyOut.state.pred.warmingQueue # <<>>
  /\ Cardinality(keyOut.state.pred.cleanupTimers) >= 2

\* C32: getMetrics returns the five counters as they are at the call and
\* changes no state; writing to the returned object does not change the
\* metrics of the instance; later operations do not change the object.
C32_MetricsSnapshot ==
  [][/\ last'.op = "getMetrics" =>
          /\ Returned' = metrics
          /\ ThisInstance' = ThisInstance
     /\ last'.op = "write" => ThisInstance' = ThisInstance
     /\ (keyOut.snap # <<>> /\ last'.op \notin {"getMetrics", "write"})
          => Returned' = Returned]_vars

\* a lookup was counted after a snapshot was taken and written to
C32_Witness ==
  /\ keyOut.snap # <<>>
  /\ last.op = "pre" /\ last.outcome = "hit"
  /\ keyOut.taken.hits = 0 /\ keyOut.taken.requests > 0
  /\ Returned.hits = -1
  /\ metrics.hits = 1

(***************************************************************************)
(* The life of an entry                                                    *)
(***************************************************************************)
\* the fingerprints that the step brings into the store
NewlyCached == {cache'[i].key : i \in 1..Len(cache')} \ {cache[i].key : i \in 1..Len(cache)}

\* C33: a fingerprint becomes cached only from pending, that is only by the
\* post of a call whose pre recorded a miss for that fingerprint (the call
\* of a GET quote request that pre let through).
C33_Lifecycle ==
  [][NewlyCached # {} =>
       /\ last'.op = "post"
       /\ Cacheable(Req(last'.url, last'.method))
       /\ NewlyCached = {createCacheKey(last'.url)}]_vars

\* the step is a post that stores an entry
StoringPost == last'.op = "post" /\ "had" \in DOMAIN last'

\* C34: post computes the TTL of the entry it stores from the price history
\* as it was before the response's own price is appended; the entry of a
\* fingerprint without an earlier accepted price gets the clamped baseline.
C34_PriorObservations ==
  [][StoringPost =>
       LET key == createCacheKey(last'.url)
           entry == cache'[Len(cache')]
       IN /\ entry.key = key
          /\ entry.ttl = getSmartTTL(options, priceChanges, last'.url)
          /\ ~MapHas(priceChanges, key) => entry.ttl = ClampedBaseline(options, last'.url)]_vars

\* the first price of a fingerprint was recorded, and the entry stored with
\* it has the baseline, not the TTL that the history would now give
C34_Witness ==
  /\ options.enableAdaptiveTTL
  /\ last.op = "post" /\ "had" \in DOMAIN last
  /\ MapHas(priceChanges, createCacheKey(last.url))
  /\ Len(MapGet(priceChanges, createCacheKey(last.url))) = 1
  /\ cache[Len(cache)].ttl = ClampedBaseline(options, last.url)
  /\ cache[Len(cache)].ttl # getSmartTTL(options, priceChanges, last.url)

(***************************************************************************)
(* clear() and the requests around it                                      *)
(***************************************************************************)
\* C35: the post of a request whose pre ran before a clear() leaves the
\* store and the price histories as clear() left them.
C35_ClearNotUndone ==
  [][(last'.op = "post" /\ last'.gen = "old") =>
       /\ cache' = cache
       /\ priceChanges' = priceChanges]_vars

\* C36: an adaptive or predictive instance that serves requests has its
\* periodic reclaimer scheduled, also after a clear().
C36_ReclaimerSurvives ==
  (/\ options.enableAdaptiveTTL \/ options.enablePredictive
   /\ last.op \in {"pre", "post"})
  => HasReclaimer

\* C37: apiCallsSaved = hits and hits <= requests in every state, and no
\* step but a clear() makes requests, hits, misses or apiCallsSaved smaller.
C37_CounterRelations ==
  [][/\ metrics'.apiCallsSaved = metrics'.hits
     /\ metrics'.hits <= metrics'.requests
     /\ last'.op # "clear" =>
          /\ metrics'.requests >= metrics.requests
          /\ metrics'.hits >= metrics.hits
          /\ metrics'.misses >= metrics.misses
          /\ metrics'.apiCallsSaved >= metrics.apiCallsSaved]_vars

\* a hit was counted after a clear(), next to a miss
C37_Witness ==
  /\ pred.cleared
  /\ last.op = "pre" /\ last.outcome = "hit"
  /\ metrics.hits = 1 /\ metrics.apiCallsSaved = 1
  /\ metrics.misses >= 1

(***************************************************************************)
(* Who is served what                                                      *)
(***************************************************************************)
ServeTuples == {TupleOther, TupleEmptySlippage, TupleTwice}

\* the quote request a URL was written from
TupleOfUrl(u) ==
  CHOOSE t \in ServeTuples : \E enc \in Encodings : u.query = BuildQuery(t, enc)

\* C38: a pre is a hit only on an entry that a post stored for a request
\* with the same (inputMint, outputMint, amount, slippageBps), a missing
\* parameter being different from every present value.
C38_NoCrossServing ==
  [][(last'.op = "pre" /\ last'.outcome = "hit") =>
       \E i \in 1..Len(cache) :
         /\ cache[i].key = last'.key
         /\ TupleOfUrl(cache[i].value.from.url) = TupleOfUrl(last'.url)
         /\ last'.out = DataUrl(btoa(JSONstringify(cache[i].value.response)))]_vars

\* a request is served the entry of the same quote written in another way,
\* while the store also holds the quote with an empty slippageBps
C38_Witness ==
  /\ last.op = "pre" /\ last.outcome = "hit"
  /\ last.url = UrlOtherAlt
  /\ \E i \in 1..Len(cache) :
       cache[i].key = last.key /\ cache[i].value.from.url = UrlOther
  /\ \E i \in 1..Len(cache) : cache[i].value.from.url = UrlEmptySlippage
====
